---- MODULE Spec2Model ----
(***************************************************************************)
(* Weather / collisions ETL: the normalizers and the accumulating          *)
(* run_transformation of transform_UPDATED.py, the non-accumulating        *)
(* run_transformation of src/transform.py with run_loading of src/load.py, *)
(* and the driver run_pipeline.py that wires the latter two.               *)
(*                                                                         *)
(* A DataFrame is [cols, rows]: the set of its column names and the        *)
(* sequence of its rows.  A file is [exists, cols, rows].  Timestamps are  *)
(* instants 1 and 2; NaT (0) is pandas' missing timestamp; Unparsable      *)
(* (-1) is a raw cell that pd.to_datetime cannot parse.                    *)
(***************************************************************************)
EXTENDS Integers, Sequences, FiniteSets, TLC

\* ---------------------------------------------------------------- bounds
MaxBatch == 2      \* rows in one extracted batch of the rich domain
MaxPipelineBatch == 1   \* the same, for an execution of run_pipeline.py
MaxRuns == 2       \* timed runs of run_transformation, and seconds they span
MaxInjured == 5    \* persons injured in one collision record
MaxDays == 3       \* the days argument of get_default_dates

\* ------------------------------------------------------- program constants
NaT == 0
Unparsable == -1
NaN == "NaN"
Ids == {"A", "B"}
BOROUGHS == {"MANHATTAN", "BROOKLYN", "QUEENS", "BRONX", "STATEN ISLAND"}

WeatherColumns == {"borough", "datetime", "val"}
CollisionColumns == {"collision_id", "crash_date", "borough", "val"}

\* pd.DataFrame(): no columns, no rows
EmptyDataFrame == [cols |-> {}, rows |-> <<>>]
NoFile == [exists |-> FALSE, cols |-> {}, rows |-> <<>>]
RaisedResult == [raised |-> TRUE, cols |-> {}, rows |-> <<>>]

Returned(df) == [raised |-> FALSE, cols |-> df.cols, rows |-> df.rows]
Pending == [done |-> FALSE, raised |-> FALSE, cols |-> {}, rows |-> <<>>]
Frame(r) == [cols |-> r.cols, rows |-> r.rows]

\* ------------------------------------------------------------ raw inputs
Timestamps == {1, 2}

\* rows the weather extractor can hand over (borough, datetime, a payload)
WeatherRows ==
    {[borough |-> "MANHATTAN", datetime |-> 1, val |-> "v1"],
     [borough |-> "MANHATTAN", datetime |-> 1, val |-> "v2"],
     [borough |-> "MANHATTAN", datetime |-> 2, val |-> "v1"],
     [borough |-> "QUEENS", datetime |-> 1, val |-> "v1"],
     [borough |-> "MANHATTAN", datetime |-> Unparsable, val |-> "v1"]}

\* rows the collision extractor can hand over
CollisionRows ==
    [collision_id : Ids, crash_date : Timestamps, borough : {"QUEENS"}, val : {"v1"}]
    \cup {[collision_id |-> "A", crash_date |-> 1, borough |-> "QUEENS", val |-> "v2"],
          [collision_id |-> "B", crash_date |-> Unparsable, borough |-> NaN, val |-> "v1"]}

SeqsUpTo(S, n) == UNION {[1..k -> S] : k \in 0..n}

\* batches of the domain a behaviour explores in depth, and of the other one
RichWeather ==
    {[cols |-> WeatherColumns, rows |-> s] : s \in SeqsUpTo(WeatherRows, MaxBatch)}
    \cup {EmptyDataFrame}
RichCollisions ==
    {[cols |-> CollisionColumns, rows |-> s] : s \in SeqsUpTo(CollisionRows, MaxBatch)}
    \cup {EmptyDataFrame}
PlainWeather ==
    {EmptyDataFrame,
     [cols |-> WeatherColumns,
      rows |-> <<[borough |-> "QUEENS", datetime |-> 1, val |-> "v1"]>>]}
PlainCollisions ==
    {EmptyDataFrame,
     [cols |-> CollisionColumns,
      rows |-> <<[collision_id |-> "A", crash_date |-> 1, borough |-> "QUEENS", val |-> "v1"]>>]}

\* collision rows with a region that is missing, outside the city, in another
\* spelling or abbreviated; they are handed to the normalizers only
RegionRows ==
    [collision_id : Ids, crash_date : {1}, borough : {NaN, "NEWARK", " queens", "STATEN IS"},
     val : {"v1"}]
RegionBatches ==
    {[cols |-> CollisionColumns, rows |-> s] : s \in SeqsUpTo(RegionRows, MaxBatch)}

WeatherInputs(f) == IF f = "weather" THEN RichWeather ELSE PlainWeather
CollisionInputs(f) == IF f = "collisions" THEN RichCollisions ELSE PlainCollisions

\* ------------------------------------------------------ pandas primitives
\* natural key and primary timestamp of a normalized row
Key(dom, r) == IF dom = "weather" THEN <<r.borough, r.datetime>> ELSE <<r.collision_id>>
TsOf(dom, r) == IF dom = "weather" THEN r.datetime ELSE r.crash_datetime
TsColumn(dom) == IF dom = "weather" THEN "datetime" ELSE "crash_datetime"

\* the rows at the indices of S, in index order
RECURSIVE Take(_, _, _)
Take(rows, S, i) ==
    IF i > Len(rows) THEN <<>>
    ELSE (IF i \in S THEN <<rows[i]>> ELSE <<>>) \o Take(rows, S, i + 1)

\* DataFrame.drop_duplicates(subset=key, keep='first')
DropDuplicatesFirst(dom, rows) ==
    Take(rows,
         {i \in 1..Len(rows) : \A j \in 1..(i - 1) : Key(dom, rows[j]) # Key(dom, rows[i])},
         1)

\* mutants of drop_duplicates(keep='last'): no deduplication; keep='first'
KeepAllRows(dom, rows) == rows
KeepFirstOccurrence(dom, rows) ==
    Take(rows,
         {i \in 1..Len(rows) : \A j \in 1..(i - 1) : Key(dom, rows[j]) # Key(dom, rows[i])},
         1)

\* DataFrame.drop_duplicates(subset=key, keep='last')
DropDuplicatesLast(dom, rows) ==
    Take(rows,
         {i \in 1..Len(rows) : \A j \in (i + 1)..Len(rows) : Key(dom, rows[j]) # Key(dom, rows[i])},
         1)

\* pd.to_datetime(..., errors='coerce') on one cell
ToDatetimeCoerce(cell) == IF cell = Unparsable THEN NaT ELSE cell

\* DataFrame.sort_values(ts): default kind='quicksort' is not a stable sort, so
\* rows with equal timestamps may come out in any order; NaT rows go last, in
\* their original order (na_position='last').
RECURSIVE Ascending(_, _, _)
Ascending(dom, rows, S) ==
    IF S = {} THEN {<<>>}
    ELSE LET least == {i \in S : \A j \in S : TsOf(dom, rows[i]) <= TsOf(dom, rows[j])}
         IN  UNION {{<<rows[i]>> \o rest : rest \in Ascending(dom, rows, S \ {i})} : i \in least}

SortValues(dom, rows) ==
    LET valid == {i \in 1..Len(rows) : TsOf(dom, rows[i]) # NaT}
        nat == {i \in 1..Len(rows) : TsOf(dom, rows[i]) = NaT}
    IN  {s \o Take(rows, nat, 1) : s \in Ascending(dom, rows, valid)}

\* ------------------------------------------- transform_UPDATED.py normalizers
RECURSIVE MapWeather(_)
MapWeather(rows) ==
    IF rows = <<>> THEN <<>>
    ELSE <<[borough |-> Head(rows).borough,
            datetime |-> ToDatetimeCoerce(Head(rows).datetime),
            val |-> Head(rows).val]>> \o MapWeather(Tail(rows))

\* WeatherTransformer.transform: df['datetime'] and the drop_duplicates subset
\* raise KeyError when the column is absent; unparsable datetimes become NaT and
\* the rows are kept; duplicates of (borough, datetime) keep the first.
WeatherTransformer_transform(df) ==
    IF ~({"datetime", "borough"} \subseteq df.cols) THEN RaisedResult
    ELSE [raised |-> FALSE,
          cols |-> df.cols \cup {"weather_category", "weather_severity"},
          rows |-> DropDuplicatesFirst("weather", MapWeather(df.rows))]

\* .str.upper().str.strip() on the region names of the inputs
upper_strip(b) ==
    CASE b = " queens" -> "QUEENS"
      [] b = "nan" -> "NAN"
      [] OTHER -> b

\* CollisionsTransformer._parse_crash_datetime, one row
ParseCrashDatetime(row) == ToDatetimeCoerce(row.crash_date)

RECURSIVE MapCollisions(_)
MapCollisions(rows) ==
    IF rows = <<>> THEN <<>>
    ELSE <<[collision_id |-> Head(rows).collision_id,
            crash_datetime |-> ParseCrashDatetime(Head(rows)),
            borough |-> IF Head(rows).borough = NaN THEN "UNKNOWN"
                        ELSE upper_strip(Head(rows).borough),
            val |-> Head(rows).val]>> \o MapCollisions(Tail(rows))

ValidBoroughRows(rows) ==
    Take(rows, {i \in 1..Len(rows) : rows[i].borough \in BOROUGHS \cup {"UNKNOWN"}}, 1)

\* DataFrame.dropna(subset=['collision_id', 'crash_datetime'])
DropNa(rows) ==
    Take(rows, {i \in 1..Len(rows) : rows[i].collision_id # NaN /\ rows[i].crash_datetime # NaT}, 1)

\* CollisionsTransformer.transform: dropna raises KeyError when collision_id is
\* absent; rows outside the valid boroughs, without id or without crash_datetime
\* are dropped; duplicates of collision_id keep the first.
CollisionsTransformer_transform(df) ==
    IF "collision_id" \notin df.cols THEN RaisedResult
    ELSE [raised |-> FALSE,
          cols |-> df.cols \cup {"crash_datetime", "total_involved", "severity_level"},
          rows |-> DropDuplicatesFirst("collisions",
                       DropNa(IF "borough" \in df.cols
                              THEN ValidBoroughRows(MapCollisions(df.rows))
                              ELSE MapCollisions(df.rows)))]

\* ------------------------------------- transform_UPDATED.py run_transformation
VARIABLES
    weather_master,      \* data/processed/weather_master.csv
    collisions_master,   \* data/processed/collisions_master.csv
    weather_backup,      \* the latest weather_<timestamp>.csv
    collisions_backup,   \* the latest collisions_<timestamp>.csv
    new_records,         \* the "Added N new records" count of the last run, per domain
    outcome,             \* how the last run_transformation call ended
    focus,               \* the domain whose batches are drawn from the rich set
    normalizer,          \* the normalizer under test, its input batch and result
    batch,
    result,
    logs_dir,            \* data/logs exists
    pipeline_return,     \* what the last run_pipeline call returned
    exit_status,         \* how the last execution of run_pipeline.py ended
    error_log,           \* the last execution wrote pipeline_error_<id>.txt
    master_write_failed, \* a write of a master file failed in the last execution
    ingested,            \* per domain, the keys written to the master by runs that returned True
    phases,              \* the phases the last run_pipeline call started, with their results
    extracted,           \* the number of rows the last extraction returned, per domain
    events,              \* the directory and file operations of the last execution, in order
    clock,               \* the wall clock, in whole seconds
    snapshots,           \* the %Y%m%d_%H%M%S stamps of the backups written, one per completed run
    function,            \* the row-level function under test, its argument and its value
    argument,
    value,
    invocations,         \* the calls of run_transformation in progress, one per process
    overlapped           \* a call began while another one was in progress

accumulator_vars == <<weather_backup, collisions_backup, new_records, outcome>>
normalizer_vars == <<normalizer, batch, result>>
pipeline_vars == <<logs_dir, pipeline_return, exit_status, error_log,
                   master_write_failed, ingested, phases, extracted, events>>
snapshot_vars == <<clock, snapshots>>
row_vars == <<function, argument, value>>
concurrent_vars == <<invocations, overlapped>>
vars == <<weather_master, collisions_master, accumulator_vars, focus,
          normalizer_vars, pipeline_vars, snapshot_vars, row_vars, concurrent_vars>>

WriteCsv(df) == [exists |-> TRUE, cols |-> df.cols, rows |-> df.rows]

\* mutant of the accumulate branch: the batch replaces the master
CombineBatchOnly(dom, existing, clean) == DropDuplicatesLast(dom, clean.rows)

\* concat + drop_duplicates(keep='last') of the accumulate branch
Combine(dom, existing, clean) == DropDuplicatesLast(dom, existing.rows \o clean.rows)

\* The accumulate branch raises when the existing master has no timestamp column
\* (KeyError) or when no row of the combined frame has a timestamp: min() is then
\* NaT and NaT.date() raises ValueError.
AccumulateRaises(dom, master, combined) ==
    /\ master.exists
    /\ \/ TsColumn(dom) \notin master.cols
       \/ \A i \in 1..Len(combined) : TsOf(dom, combined[i]) = NaT

\* the frames the accumulate step can yield for one domain
Accumulate(dom, master, clean, combined) ==
    IF master.exists
    THEN {[cols |-> master.cols \cup clean.cols, rows |-> s] : s \in SortValues(dom, combined)}
    ELSE {Frame(clean)}

\* mutant of the count: the size of the merged frame
CountMerged(master, combined) == Len(combined.rows)

\* len(combined) - len(existing); a first run reports len(combined)
NewRecords(master, combined) ==
    IF master.exists THEN Len(combined.rows) - Len(master.rows) ELSE Len(combined.rows)

\* run_transformation after the two transform calls: accumulate both domains,
\* then save the masters and the timestamped backups
AccumulateAndSave(weather_clean, collisions_clean) ==
    LET weather_rows == Combine("weather", weather_master, weather_clean)
        collisions_rows == Combine("collisions", collisions_master, collisions_clean)
    IN  IF \/ weather_clean.raised
           \/ collisions_clean.raised
           \/ AccumulateRaises("weather", weather_master, weather_rows)
           \/ AccumulateRaises("collisions", collisions_master, collisions_rows)
        THEN /\ outcome' = "raised"
             /\ UNCHANGED <<weather_master, collisions_master,
                            weather_backup, collisions_backup, new_records>>
        ELSE \E weather_combined \in
                    Accumulate("weather", weather_master, weather_clean, weather_rows),
                collisions_combined \in
                    Accumulate("collisions", collisions_master, collisions_clean, collisions_rows) :
                /\ weather_master' = WriteCsv(weather_combined)
                /\ collisions_master' = WriteCsv(collisions_combined)
                /\ weather_backup' = WriteCsv(weather_clean)
                /\ collisions_backup' = WriteCsv(collisions_clean)
                /\ new_records' =
                       [weather |-> NewRecords(weather_master, weather_combined),
                        collisions |-> NewRecords(collisions_master, collisions_combined)]
                /\ outcome' = "returned"

RunTransformation(weather_df, collisions_df) ==
    AccumulateAndSave(WeatherTransformer_transform(weather_df),
                      CollisionsTransformer_transform(collisions_df))

\* what the two transform calls can hand to the accumulate steps
WeatherClean(f) == {WeatherTransformer_transform(df) : df \in WeatherInputs(f)}
CollisionsClean(f) == {CollisionsTransformer_transform(df) : df \in CollisionInputs(f)}

\* one call run_transformation(weather_df, collisions_df), the batches ranging
\* over WeatherInputs(focus) and CollisionInputs(focus)
Accumulator ==
    /\ \E weather_clean \in WeatherClean(focus), collisions_clean \in CollisionsClean(focus) :
           AccumulateAndSave(weather_clean, collisions_clean)
    /\ UNCHANGED <<focus, normalizer_vars, pipeline_vars, snapshot_vars, row_vars, concurrent_vars>>

NoFiles ==
    /\ weather_master = NoFile
    /\ collisions_master = NoFile
    /\ weather_backup = NoFile
    /\ collisions_backup = NoFile
    /\ new_records = [weather |-> 0, collisions |-> 0]
    /\ outcome = "none"

NoNormalizer ==
    /\ normalizer = "none"
    /\ batch = EmptyDataFrame
    /\ result = Pending

NoPipeline ==
    /\ pipeline_return = "none"
    /\ exit_status = "none"
    /\ error_log = FALSE
    /\ master_write_failed = FALSE
    /\ ingested = [weather |-> {}, collisions |-> {}]
    /\ phases = <<>>
    /\ extracted = [weather |-> 0, collisions |-> 0]
    /\ events = <<>>

NoSnapshots ==
    /\ clock = 0
    /\ snapshots = <<>>

NotApplied == [label |-> "pending"]

NoRow ==
    /\ function = "none"
    /\ argument = [label |-> "none"]
    /\ value = NotApplied

\* the processes that can call run_transformation, and a call not yet begun
Processes == {1, 2}
Idle ==
    [pc |-> "idle", weather_clean |-> EmptyDataFrame, collisions_clean |-> EmptyDataFrame,
     weather_combined |-> EmptyDataFrame, collisions_combined |-> EmptyDataFrame,
     written |-> {}]

NoInvocations ==
    /\ invocations = [p \in Processes |-> Idle]
    /\ overlapped = FALSE

Init ==
    /\ NoFiles
    /\ focus \in {"weather", "collisions"}
    /\ NoNormalizer
    /\ logs_dir = TRUE
    /\ NoPipeline
    /\ NoSnapshots
    /\ NoRow
    /\ NoInvocations

Next == Accumulator

Spec == Init /\ [][Next]_vars


\* ------------------------------------------- run_transformation, on the clock
\* timestamp = datetime.now().strftime("%Y%m%d_%H%M%S") names the two backups
\* of a run; less than a second may pass between two calls.
TimedRun ==
    /\ Len(snapshots) < MaxRuns
    /\ clock < MaxRuns
    /\ \E weather_clean \in WeatherClean(focus), collisions_clean \in CollisionsClean(focus) :
           AccumulateAndSave(weather_clean, collisions_clean)
    /\ snapshots' = IF outcome' = "returned" THEN Append(snapshots, clock) ELSE snapshots
    /\ \E passed \in {0, 1} : clock' = clock + passed
    /\ UNCHANGED <<focus, normalizer_vars, pipeline_vars, row_vars, concurrent_vars>>

SpecSnapshots == Init /\ [][TimedRun]_vars

\* ------------------------------------------------- src/transform.py normalizers
\* transform_weather_data: an empty frame gives pd.DataFrame(); pd.to_datetime
\* without errors='coerce' raises on an unparsable cell and the except clause
\* gives pd.DataFrame(); otherwise every row is kept.
transform_weather_data(df) ==
    IF df.rows = <<>> THEN Returned(EmptyDataFrame)
    ELSE IF "datetime" \in df.cols /\ \E i \in 1..Len(df.rows) : df.rows[i].datetime = Unparsable
    THEN Returned(EmptyDataFrame)
    ELSE [raised |-> FALSE, cols |-> df.cols \cup {"date", "weather_category"}, rows |-> df.rows]

RECURSIVE MapCrashDate(_)
MapCrashDate(rows) ==
    IF rows = <<>> THEN <<>>
    ELSE <<[Head(rows) EXCEPT !.crash_date = ToDatetimeCoerce(@)]>> \o MapCrashDate(Tail(rows))

\* the borough map of transform_collision_data: astype(str) turns a missing
\* borough into 'nan'; what the map does not list becomes OTHER and is dropped
map_borough(b) ==
    LET name == upper_strip(IF b = NaN THEN "nan" ELSE b)
    IN  IF name \in BOROUGHS THEN name
        ELSE IF name = "STATEN IS" THEN "STATEN ISLAND"
        ELSE "OTHER"

RECURSIVE MapBorough(_)
MapBorough(rows) ==
    IF rows = <<>> THEN <<>>
    ELSE <<[Head(rows) EXCEPT !.borough = map_borough(@)]>> \o MapBorough(Tail(rows))

MappedBoroughRows(rows) ==
    Take(MapBorough(rows), {i \in 1..Len(rows) : MapBorough(rows)[i].borough # "OTHER"}, 1)

\* transform_collision_data: an empty frame gives pd.DataFrame(); crash_date is
\* coerced; rows outside the borough map are dropped; no dropna, no deduplication.
transform_collision_data(df) ==
    IF df.rows = <<>> THEN Returned(EmptyDataFrame)
    ELSE [raised |-> FALSE,
          cols |-> df.cols \cup {"date", "severity_level"},
          rows |-> IF "borough" \in df.cols
                   THEN MappedBoroughRows(MapCrashDate(df.rows))
                   ELSE MapCrashDate(df.rows)]

\* ------------------------------------------------------ a normalizer, applied
Normalizers ==
    {"WeatherTransformer.transform", "CollisionsTransformer.transform",
     "transform_weather_data", "transform_collision_data"}

WeatherNormalizers == {"WeatherTransformer.transform", "transform_weather_data"}

Apply(n, df) ==
    CASE n = "WeatherTransformer.transform" -> WeatherTransformer_transform(df)
      [] n = "CollisionsTransformer.transform" -> CollisionsTransformer_transform(df)
      [] n = "transform_weather_data" -> transform_weather_data(df)
      [] n = "transform_collision_data" -> transform_collision_data(df)

Normalize ==
    /\ ~result.done
    /\ result' = [done |-> TRUE, raised |-> Apply(normalizer, batch).raised,
                  cols |-> Apply(normalizer, batch).cols,
                  rows |-> Apply(normalizer, batch).rows]
    /\ UNCHANGED <<weather_master, collisions_master, accumulator_vars, focus,
                   normalizer, batch, pipeline_vars, snapshot_vars, row_vars, concurrent_vars>>

InitNormalize ==
    /\ NoFiles
    /\ focus = "weather"
    /\ normalizer \in Normalizers
    /\ batch \in IF normalizer \in WeatherNormalizers THEN RichWeather
                 ELSE RichCollisions \cup RegionBatches
    /\ result = Pending
    /\ logs_dir = TRUE
    /\ NoPipeline
    /\ NoSnapshots
    /\ NoRow
    /\ NoInvocations

SpecNormalize == InitNormalize /\ [][Normalize]_vars


\* ------------------------------------------------------ the pipeline as wired
\* run_pipeline.py imports run_transformation from src/transform.py and
\* run_loading from src/load.py.
\* what run_extraction can return for the requested range
PipelineWeatherInputs(f) ==
    IF f = "weather"
    THEN {[cols |-> WeatherColumns, rows |-> r] : r \in SeqsUpTo(WeatherRows, MaxPipelineBatch)}
         \cup {EmptyDataFrame}
    ELSE PlainWeather
PipelineCollisionInputs(f) ==
    IF f = "collisions"
    THEN {[cols |-> CollisionColumns, rows |-> r] : r \in SeqsUpTo(CollisionRows, MaxPipelineBatch)}
         \cup {EmptyDataFrame}
    ELSE PlainCollisions

\* transform_weather_data ends in its except clause ("Weather transformation
\* failed") when pd.to_datetime meets a cell it cannot parse
transform_weather_failed(df) ==
    /\ df.rows # <<>>
    /\ "datetime" \in df.cols
    /\ \E i \in 1..Len(df.rows) : df.rows[i].datetime = Unparsable

\* WeatherExtractor.extract / CollisionExtractor.extract followed by the
\* normalizer: a network or API error is caught in the extractor, which logs it
\* and returns pd.DataFrame()
ExtractedWeather(inputs) ==
    {[clean |-> Frame(transform_weather_data(df)), api_error |-> FALSE,
      failed |-> transform_weather_failed(df), extracted |-> Len(df.rows)] : df \in inputs}
    \cup {[clean |-> Frame(transform_weather_data(EmptyDataFrame)), api_error |-> TRUE,
           failed |-> FALSE, extracted |-> 0]}
ExtractedCollisions(inputs) ==
    {[clean |-> Frame(transform_collision_data(df)), api_error |-> FALSE,
      failed |-> FALSE, extracted |-> Len(df.rows)] : df \in inputs}
    \cup {[clean |-> Frame(transform_collision_data(EmptyDataFrame)), api_error |-> TRUE,
           failed |-> FALSE, extracted |-> 0]}

Phase(name, res) == [phase |-> name, result |-> res]

\* operations on the two data directories: creating one, opening a file in
\* data/logs, writing a master file in data/processed
Makedirs(dir) == [op |-> "makedirs", dir |-> dir]
OpenIn(dir) == [op |-> "open", dir |-> dir]

\* run_pipeline.py up to the call of run_pipeline: logging.basicConfig opens
\* data/logs/pipeline.log when the module is loaded (lines 15-23); main creates
\* the directories (318-324) and then calls run_pipeline
ScriptEvents == <<OpenIn("data/logs"), Makedirs("data/logs"), Makedirs("data/processed")>>

\* the master writes of the transformation and loading phases, then the
\* summary file, and the error file when the summary cannot be opened
RunEvents(weather_clean, collisions_clean, skip_database, logs_ok) ==
    (IF Len(weather_clean.rows) > 0 \/ Len(collisions_clean.rows) > 0 \/ ~skip_database
     THEN <<Makedirs("data/processed"), OpenIn("data/processed")>> ELSE <<>>)
    \o <<OpenIn("data/logs")>>
    \o (IF logs_ok THEN <<>> ELSE <<OpenIn("data/logs")>>)

\* the extraction phase: run_extraction returns whatever the extractors caught;
\* the fallback to 2024-01-01..2024-01-30 runs only when the first try block
\* raised
ExtractionPhases(first_raised, weather, collisions) ==
    IF first_raised
    THEN <<Phase("extraction", "raised"),
           Phase("fallback extraction",
                 IF weather.api_error \/ collisions.api_error THEN "api error" ELSE "ok")>>
    ELSE <<Phase("extraction",
                 IF weather.api_error \/ collisions.api_error THEN "api error" ELSE "ok")>>

\* the transformation phase of src/transform.py: the two normalizers, then the
\* save block when a frame has rows
TransformationPhases(weather, collisions, processed_ok) ==
    <<Phase("normalization", IF weather.failed \/ collisions.failed THEN "failed" ELSE "ok")>>
    \o (IF Len(weather.clean.rows) > 0 \/ Len(collisions.clean.rows) > 0
        THEN <<Phase("persistence", IF processed_ok THEN "ok" ELSE "failed")>>
        ELSE <<>>)

\* the loading phase, skipped under SKIP_DATABASE
LoadingPhases(skip_database, processed_ok) ==
    IF skip_database THEN <<>>
    ELSE <<Phase("persistence", IF processed_ok THEN "ok" ELSE "failed")>>

\* the column lists of run_loading, restricted to the modelled columns
weather_cols == {"date", "borough", "datetime", "val", "weather_category", "weather_severity"}
collision_cols == {"crash_date", "borough", "val", "collision_id", "date", "severity_level"}

KeysOf(dom, rows) == {Key(dom, rows[i]) : i \in 1..Len(rows)}

\* src/transform.py run_transformation: a non-empty result replaces the master;
\* a failing write is logged and swallowed
SaveTransformed(master, transformed, processed_ok) ==
    IF processed_ok /\ Len(transformed.rows) > 0 THEN WriteCsv(transformed) ELSE master

\* src/load.py run_loading: the column-filtered frame replaces the master,
\* whatever its length; a failing write makes it return False
run_loading(master, cols, df, processed_ok) ==
    IF processed_ok THEN WriteCsv([cols |-> df.cols \cap cols, rows |-> df.rows]) ELSE master

WrittenKeys(dom, df, skip_database, processed_ok) ==
    IF processed_ok /\ (Len(df.rows) > 0 \/ ~skip_database) THEN KeysOf(dom, df.rows) ELSE {}

\* the except clause of run_pipeline: the error file is opened for writing,
\* and a failure to open it leaves the handler as an exception
HandleFailure(logs_ok) ==
    /\ error_log' = logs_ok
    /\ pipeline_return' = IF logs_ok THEN "False" ELSE "raised"

\* run_pipeline fails before the transformation phase: the dates do not parse,
\* or the extraction and its fallback both fail
FailEarly(logs_ok) ==
    /\ HandleFailure(logs_ok)
    /\ master_write_failed' = FALSE
    /\ UNCHANGED <<weather_master, collisions_master, ingested>>

\* run_pipeline from the transformation phase on
TransformLoadSummarize(weather_clean, collisions_clean, skip_database, processed_ok, logs_ok) ==
    /\ weather_master' =
           IF skip_database
           THEN SaveTransformed(weather_master, weather_clean, processed_ok)
           ELSE run_loading(SaveTransformed(weather_master, weather_clean, processed_ok),
                            weather_cols, weather_clean, processed_ok)
    /\ collisions_master' =
           IF skip_database
           THEN SaveTransformed(collisions_master, collisions_clean, processed_ok)
           ELSE run_loading(SaveTransformed(collisions_master, collisions_clean, processed_ok),
                            collision_cols, collisions_clean, processed_ok)
    /\ master_write_failed' =
           (~processed_ok /\ (~skip_database \/ Len(weather_clean.rows) > 0
                                             \/ Len(collisions_clean.rows) > 0))
    /\ ingested' =
           IF logs_ok
           THEN [weather |-> ingested.weather
                          \cup WrittenKeys("weather", weather_clean, skip_database, processed_ok),
                 collisions |-> ingested.collisions
                          \cup WrittenKeys("collisions", collisions_clean, skip_database, processed_ok)]
           ELSE ingested
    /\ IF logs_ok
       THEN pipeline_return' = "True" /\ error_log' = FALSE
       ELSE HandleFailure(logs_ok)

\* run_pipeline after the dates parsed and an extraction returned
ExtractTransformLoad(first_raised, weather, collisions, skip_database, processed_ok, logs_ok) ==
    /\ TransformLoadSummarize(weather.clean, collisions.clean,
                              skip_database, processed_ok, logs_ok)
    /\ phases' = ExtractionPhases(first_raised, weather, collisions)
                     \o TransformationPhases(weather, collisions, processed_ok)
                     \o LoadingPhases(skip_database, processed_ok)
    /\ extracted' = [weather |-> weather.extracted, collisions |-> collisions.extracted]
    /\ events' = ScriptEvents
                     \o RunEvents(weather.clean, collisions.clean, skip_database, logs_ok)

run_pipeline ==
    \/ \E logs_ok \in BOOLEAN, dates_ok \in BOOLEAN :
          /\ FailEarly(logs_ok)
          /\ phases' = IF dates_ok
                        THEN <<Phase("extraction", "raised"),
                               Phase("fallback extraction", "raised")>>
                        ELSE <<>>
          /\ extracted' = [weather |-> 0, collisions |-> 0]
          /\ events' = ScriptEvents \o <<OpenIn("data/logs")>>
    \/ \E weather \in ExtractedWeather(PipelineWeatherInputs(focus)),
          collisions \in ExtractedCollisions(PipelineCollisionInputs(focus)),
          skip_database \in BOOLEAN, processed_ok \in BOOLEAN, logs_ok \in BOOLEAN :
          ExtractTransformLoad(FALSE, weather, collisions, skip_database, processed_ok, logs_ok)
    \/ \E weather \in ExtractedWeather(PlainWeather),
          collisions \in ExtractedCollisions(PlainCollisions),
          skip_database \in BOOLEAN, processed_ok \in BOOLEAN, logs_ok \in BOOLEAN :
          ExtractTransformLoad(TRUE, weather, collisions, skip_database, processed_ok, logs_ok)

\* one execution of run_pipeline.py: logging is configured at import, main
\* calls run_pipeline and turns its result into the exit status
ImportFails ==
    /\ ~logs_dir
    /\ pipeline_return' = "not called"
    /\ exit_status' = "unhandled"
    /\ error_log' = FALSE
    /\ master_write_failed' = FALSE
    /\ phases' = <<>>
    /\ extracted' = [weather |-> 0, collisions |-> 0]
    /\ events' = <<OpenIn("data/logs")>>
    /\ UNCHANGED <<weather_master, collisions_master, ingested>>

main ==
    /\ logs_dir
    /\ run_pipeline
    /\ exit_status' = CASE pipeline_return' = "True" -> "0"
                        [] pipeline_return' = "False" -> "1"
                        [] OTHER -> "unhandled"

PipelineScript ==
    /\ ImportFails \/ main
    /\ UNCHANGED <<accumulator_vars, focus, normalizer_vars, logs_dir, snapshot_vars,
                   row_vars, concurrent_vars>>

InitPipeline ==
    /\ NoFiles
    /\ focus \in {"weather", "collisions"}
    /\ NoNormalizer
    /\ logs_dir \in BOOLEAN
    /\ NoPipeline
    /\ NoSnapshots
    /\ NoRow
    /\ NoInvocations

NextPipeline == PipelineScript

SpecPipeline == InitPipeline /\ [][NextPipeline]_vars

\* -------------------------------------------------------- row-level functions
\* the injury columns of one collision record after to_numeric/fillna(0)/astype(int);
\* others is the sum of the six pedestrian, cyclist and motorist counts
CollisionCounts ==
    [persons_killed : 0..1, persons_injured : 0..MaxInjured, others : 0..1]

total_involved(row) == row.persons_injured + row.persons_killed + row.others

\* CollisionsTransformer._determine_severity
determine_severity(row) ==
    IF row.persons_killed > 0 THEN "FATAL"
    ELSE IF row.persons_injured >= 3 THEN "SEVERE"
    ELSE IF row.persons_injured > 0 THEN "MODERATE"
    ELSE IF total_involved(row) > 0 THEN "MINOR"
    ELSE "NONE"

\* the np.select of transform_collision_data: the last condition is True
select_severity_level(row) ==
    IF row.persons_killed > 0 THEN "FATAL"
    ELSE IF row.persons_injured >= 3 THEN "SEVERE"
    ELSE IF row.persons_injured > 0 THEN "MODERATE"
    ELSE "MINOR"

\* the numeric columns of one hourly weather record after to_numeric/fillna(0);
\* precipitation is the sum of rain, showers and snowfall, as the API reports it
WeatherReadings ==
    {[snowfall |-> sn, rain |-> ra, showers |-> sh, precipitation |-> ra + sh + sn,
      visibility |-> vi, wind_speed_10m |-> wi] :
        sn \in {0, 2}, ra \in {0, 1}, sh \in {0, 1}, vi \in {4000, 10000}, wi \in {10, 40}}

\* WeatherTransformer._categorize_weather
categorize_weather(row) ==
    IF row.snowfall > 0 THEN "SNOW"
    ELSE IF row.rain + row.showers + row.precipitation > 0 THEN "RAIN"
    ELSE IF row.visibility < 5000 THEN "FOG"
    ELSE IF row.wind_speed_10m > 30 THEN "WIND"
    ELSE "CLEAR"

\* the np.select of transform_weather_data: snowfall, then rain, then CLEAR
select_weather_category(row) ==
    IF row.snowfall > 0 THEN "SNOW"
    ELSE IF row.rain > 0 THEN "RAIN"
    ELSE "CLEAR"

\* the numeric columns of one record when WeatherTransformer.transform derives
\* the two weather fields: each column on its own, on both sides of every
\* threshold; an absent column reads as its default (0, or 10000 for visibility)
TransformerReadings ==
    [snowfall : {0, 2, 6}, rain : {-3, 0, 3}, showers : {0, 3}, precipitation : {0, 6},
     visibility : {500, 2000, 4000, 10000}, wind_speed_10m : {10, 40, 60}]

assess_severity_of_any_wind(row) ==
    IF row.snowfall > 5 THEN "HEAVY"
    ELSE IF row.wind_speed_10m > 0 THEN "MODERATE"
    ELSE "LIGHT"

\* WeatherTransformer._assess_severity
assess_severity(row) ==
    LET rain_total == row.rain + row.showers + row.precipitation
    IN  IF row.snowfall > 5 THEN "HEAVY"
        ELSE IF rain_total > 10 THEN "HEAVY"
        ELSE IF rain_total > 5 THEN "MODERATE"
        ELSE IF row.visibility < 1000 THEN "SEVERE"
        ELSE IF row.visibility < 3000 THEN "MODERATE"
        ELSE IF row.wind_speed_10m > 50 THEN "SEVERE"
        ELSE IF row.wind_speed_10m > 30 THEN "MODERATE"
        ELSE "LIGHT"

\* the two columns WeatherTransformer.transform derives from one record
weather_fields(row) ==
    [weather_category |-> categorize_weather(row),
     weather_severity |-> assess_severity(row)]

\* ---- CollisionsTransformer._parse_crash_datetime, on the text of the two cells
\* a cell of a record: present is FALSE when the frame has no such column
\* (row.get then returns its default); text is what str() makes of the value
Cell(text) == [present |-> TRUE, text |-> text]
AbsentCell == [present |-> FALSE, text |-> <<>>]
nan == <<"n", "a", "n">>

\* crash_date as the API sends it, as a bare date, as str() of the Timestamp the
\* extractor converts it to, and as a null; the text is cut where "T" can occur
CrashDates ==
    { AbsentCell,
      Cell(<<"2024-01-01", "T", "00:00:00.000">>),
      Cell(<<"2024-01-01">>),
      Cell(<<"2024-01-01", " ", "00:00:00">>),
      Cell(<<"nan">>) }

\* crash_time character by character
CrashTimes ==
    { AbsentCell,
      Cell(<<"9", ":", "1", "5">>),
      Cell(<<"0", "9", ":", "1", "5">>),
      Cell(<<"1", "4", ":", "3", "0">>),
      Cell(<<" ", "9", ":", "1", "5">>),
      Cell(<<"2", "5", ":", "0", "0">>),
      Cell(nan) }

CrashRecords == [crash_date : CrashDates, crash_time : CrashTimes]

\* row.get(column, default)
get(cell, default) == IF cell.present THEN cell.text ELSE default

FirstIndex(s, c) ==
    IF \E i \in 1..Len(s) : s[i] = c
    THEN CHOOSE i \in 1..Len(s) : s[i] = c /\ \A j \in 1..(i - 1) : s[j] # c
    ELSE 0

\* s.split(c)[0]
SplitFirst(s, c) ==
    IF FirstIndex(s, c) = 0 THEN s ELSE SubSeq(s, 1, FirstIndex(s, c) - 1)

RECURSIVE strip(_)
strip(s) ==
    IF s = <<>> THEN s
    ELSE IF Head(s) = " " THEN strip(Tail(s))
    ELSE IF s[Len(s)] = " " THEN strip(SubSeq(s, 1, Len(s) - 1))
    ELSE s

\* the time text as it is handed to the parser when nothing is prepended
NoPadding(time_str) == time_str

\* if ':' in time_str and len(time_str.split(':')[0]) == 1: time_str = '0' + time_str
PadHour(time_str) ==
    IF FirstIndex(time_str, ":") # 0 /\ Len(SplitFirst(time_str, ":")) = 1
    THEN <<"0">> \o time_str
    ELSE time_str

Digits == <<"0", "1", "2", "3", "4", "5", "6", "7", "8", "9">>
IsDigit(c) == \E i \in 1..Len(Digits) : Digits[i] = c
DigitValue(c) == (CHOOSE i \in 1..Len(Digits) : Digits[i] = c) - 1

RECURSIVE Number(_)
Number(s) == IF s = <<>> THEN 0 ELSE 10 * Number(SubSeq(s, 1, Len(s) - 1)) + DigitValue(s[Len(s)])

\* the H:MM or HH:MM a date parser reads out of the time text
ParseClock(time_str) ==
    LET colon == FirstIndex(time_str, ":")
        hh == SubSeq(time_str, 1, colon - 1)
        mm == SubSeq(time_str, colon + 1, Len(time_str))
        wellformed == /\ colon \in {2, 3}
                      /\ Len(mm) = 2
                      /\ \A i \in 1..Len(time_str) : i # colon => IsDigit(time_str[i])
    IN  IF wellformed /\ Number(hh) <= 23 /\ Number(mm) <= 59
        THEN [ok |-> TRUE, hour |-> Number(hh), minute |-> Number(mm)]
        ELSE [ok |-> FALSE, hour |-> 0, minute |-> 0]

ValidDates == {"2024-01-01"}

\* the calendar date the parser reads out of date_str: none when date_str is
\* empty, the date when date_str is one, also when a midnight follows it (the
\* later H:MM then replaces that time of day), "unknown" otherwise
DatePart(date_str) ==
    IF date_str = <<>> THEN "none"
    ELSE IF /\ date_str[1] \in ValidDates
            /\ (Len(date_str) = 1 \/ SubSeq(date_str, 2, Len(date_str)) = <<" ", "00:00:00">>)
         THEN date_str[1]
         ELSE "unknown"

pd_NaT == [date |-> "NaT", hour |-> 0, minute |-> 0]

\* pd.to_datetime(f"{date_str} {time_str}", errors='coerce'). A text with a
\* time of day but no date is completed with the parser's default date
\* 0001-01-01; whether that is a timestamp or, being out of range, NaT,
\* depends on the resolution of the installed pandas
to_datetime_string(date_str, time_str) ==
    LET hhmm == ParseClock(time_str)
        date == DatePart(date_str)
    IN  IF ~hhmm.ok \/ date = "unknown" THEN {pd_NaT}
        ELSE IF date = "none"
             THEN {pd_NaT, [date |-> "0001-01-01", hour |-> hhmm.hour, minute |-> hhmm.minute]}
             ELSE {[date |-> date, hour |-> hhmm.hour, minute |-> hhmm.minute]}

\* _parse_crash_datetime: str() of a cell never raises, so the except branch
\* is not taken for these records
parse_crash_datetime(row) ==
    LET date_str == SplitFirst(get(row.crash_date, <<>>), "T")
        time_str == PadHour(strip(get(row.crash_time, <<"0", "0", ":", "0", "0">>)))
    IN  {[time_str |-> time_str, crash_datetime |-> dt] :
            dt \in to_datetime_string(date_str, time_str)}

\* ---- run_pipeline.py: the date range. A date is the number of its day; an
\* argument left as None is a cell that is not given
Todays == 10..11
GivenDate(d) == [given |-> TRUE, date |-> d]
NoDate == [given |-> FALSE, date |-> 0]

DefaultDatesArguments == [today : Todays, days : 1..MaxDays]
DateRangeArguments ==
    [today : Todays, days : 1..MaxDays,
     start_date : {NoDate, GivenDate(5)}, end_date : {NoDate, GivenDate(8)}]

\* get_default_dates: end_date = now(New York) - 1 day,
\* start_date = end_date - timedelta(days=days-1)
get_default_dates(today, days) ==
    [start_date |-> (today - 1) - (days - 1), end_date |-> today - 1]

\* run_pipeline, lines 71-81: the bounds it goes on to extract
date_range(row) ==
    LET default == get_default_dates(row.today, row.days)
    IN  [start_date |-> IF row.start_date.given THEN row.start_date.date
                        ELSE default.start_date,
         end_date |-> IF row.end_date.given THEN row.end_date.date
                      ELSE default.end_date]

DateFunctions == {"get_default_dates", "run_pipeline date range"}

\* ---- CollisionsTransformer.transform: the injury columns. A raw cell is a
\* missing column, a null, a text that is no number, or a number given in
\* tenths (27 is 2.7)
injury_cols ==
    {"persons_injured", "persons_killed", "pedestrians_injured", "pedestrians_killed",
     "cyclists_injured", "cyclists_killed", "motorists_injured", "motorists_killed"}
RawNumbers == {-10, 0, 20, 27}
RawCounts ==
    {[kind |-> k, tenths |-> 0] : k \in {"absent", "null", "text"}}
    \cup {[kind |-> "number", tenths |-> t] : t \in RawNumbers}

\* records whose two person counts vary freely and whose six other counts
\* hold one raw value
RawInjuryRecords ==
    {[f \in injury_cols |->
         IF f = "persons_injured" THEN a ELSE IF f = "persons_killed" THEN b ELSE c] :
        a \in RawCounts, b \in RawCounts, c \in RawCounts}

\* .astype(int) truncates toward zero
astype_int(tenths) == IF tenths >= 0 THEN tenths \div 10 ELSE -((-tenths) \div 10)

\* if col not in df.columns: df[col] = 0
\* df[col] = pd.to_numeric(df[col], errors='coerce').fillna(0).astype(int)
clean_count(cell) == IF cell.kind = "number" THEN astype_int(cell.tenths) ELSE 0

RECURSIVE SumOf(_, _)
SumOf(counts, cols) ==
    IF cols = {} THEN 0
    ELSE LET col == CHOOSE c \in cols : TRUE
         IN  counts[col] + SumOf(counts, cols \ {col})

clean_injury_cols(row) ==
    LET counts == [col \in injury_cols |-> clean_count(row[col])]
    IN  [counts |-> counts, total_involved |-> SumOf(counts, injury_cols)]

CountFunctions == {"CollisionsTransformer.transform injury_cols"}

SeverityFunctions == {"_determine_severity", "transform_collision_data severity_level"}
CategoryFunctions == {"_categorize_weather", "transform_weather_data weather_category"}
DatetimeFunctions == {"_parse_crash_datetime"}
WeatherFieldFunctions == {"WeatherTransformer.transform weather fields"}

Arguments(f) ==
    CASE f \in SeverityFunctions -> CollisionCounts
      [] f \in CategoryFunctions -> WeatherReadings
      [] f \in DatetimeFunctions -> CrashRecords
      [] f = "get_default_dates" -> DefaultDatesArguments
      [] f \in CountFunctions -> RawInjuryRecords
      [] f \in WeatherFieldFunctions -> TransformerReadings
      [] f = "run_pipeline date range" -> DateRangeArguments

Value(f, row) ==
    CASE f = "_determine_severity" -> {[label |-> determine_severity(row)]}
      [] f = "transform_collision_data severity_level" -> {[label |-> select_severity_level(row)]}
      [] f = "_categorize_weather" -> {[label |-> categorize_weather(row)]}
      [] f = "transform_weather_data weather_category" -> {[label |-> select_weather_category(row)]}
      [] f = "_parse_crash_datetime" -> parse_crash_datetime(row)
      [] f = "get_default_dates" -> {get_default_dates(row.today, row.days)}
      [] f \in CountFunctions -> {clean_injury_cols(row)}
      [] f \in WeatherFieldFunctions -> {weather_fields(row)}
      [] f = "run_pipeline date range" -> {date_range(row)}

ApplyToRow ==
    /\ value = NotApplied
    /\ value' \in Value(function, argument)
    /\ UNCHANGED <<weather_master, collisions_master, accumulator_vars, focus,
                   normalizer_vars, pipeline_vars, snapshot_vars, function, argument,
                   concurrent_vars>>

InitRow ==
    /\ NoFiles
    /\ focus = "weather"
    /\ NoNormalizer
    /\ logs_dir = TRUE
    /\ NoPipeline
    /\ NoSnapshots
    /\ function \in SeverityFunctions \cup CategoryFunctions \cup DatetimeFunctions
                    \cup DateFunctions \cup CountFunctions \cup WeatherFieldFunctions
    /\ argument \in Arguments(function)
    /\ value = NotApplied
    /\ NoInvocations

SpecRow == InitRow /\ [][ApplyToRow]_vars

\* ------------------- run_transformation over masters of the other writers
\* A weather master that run_loading wrote from the frame of
\* transform_weather_data (no deduplication there), or a collisions master of
\* an earlier accumulating run; then one call of run_transformation.
LoadedWeatherMasters ==
    {run_loading(NoFile, weather_cols, Frame(transform_weather_data(df)), TRUE) :
        df \in RichWeather}
AccumulatedCollisionsMasters ==
    {WriteCsv(Frame(c)) : c \in {d \in CollisionsClean("collisions") : ~d.raised}}


AccumulateOnce ==
    /\ outcome = "none"
    /\ Accumulator

InitLoaded ==
    /\ focus \in {"weather", "collisions"}
    /\ weather_master \in {NoFile} \cup (IF focus = "weather" THEN LoadedWeatherMasters ELSE {})
    /\ collisions_master \in
           {NoFile} \cup (IF focus = "collisions" THEN AccumulatedCollisionsMasters ELSE {})
    /\ weather_backup = NoFile
    /\ collisions_backup = NoFile
    /\ new_records = [weather |-> 0, collisions |-> 0]
    /\ outcome = "none"
    /\ NoNormalizer
    /\ logs_dir = TRUE
    /\ NoPipeline
    /\ NoSnapshots
    /\ NoRow
    /\ NoInvocations

SpecLoaded == InitLoaded /\ [][AccumulateOnce]_vars

\* --------------------------- run_transformation, statement by statement
\* Two processes call run_transformation of transform_UPDATED.py once each.
\* Nothing in the module locks the master files, so the statements of the two
\* calls interleave freely.
MaxConcurrentBatch == 1

ConcurrentWeatherRows ==
    {r \in WeatherRows : r.borough = "MANHATTAN" /\ r.val = "v1"}
ConcurrentCollisionRows ==
    {r \in CollisionRows : r.val = "v1" /\ r.crash_date # 2}

\* the normalized batches of a call: of the domain in focus, and of the other
ConcurrentWeatherClean(f) ==
    IF f = "weather"
    THEN {Frame(WeatherTransformer_transform([cols |-> WeatherColumns, rows |-> s])) :
             s \in SeqsUpTo(ConcurrentWeatherRows, MaxConcurrentBatch)}
    ELSE {Frame(WeatherTransformer_transform(df)) : df \in PlainWeather \ {EmptyDataFrame}}
ConcurrentCollisionsClean(f) ==
    IF f = "collisions"
    THEN {Frame(CollisionsTransformer_transform([cols |-> CollisionColumns, rows |-> s])) :
             s \in SeqsUpTo(ConcurrentCollisionRows, MaxConcurrentBatch)}
    ELSE {Frame(CollisionsTransformer_transform(df)) : df \in PlainCollisions \ {EmptyDataFrame}}

\* mutant of the statement order: each master is written right after its merge
WriteAfterEachMerge(pc) ==
    CASE pc = "accumulate weather" -> "save weather master"
      [] pc = "save weather master" -> "accumulate collisions"
      [] pc = "accumulate collisions" -> "save collisions master"
      [] pc = "save collisions master" -> "save backups"
      [] pc = "save backups" -> "done"

\* the order of the statements of run_transformation after the two transform
\* calls: both accumulate blocks, then the two masters, then the two backups
NextStatement(pc) ==
    CASE pc = "accumulate weather" -> "accumulate collisions"
      [] pc = "accumulate collisions" -> "save weather master"
      [] pc = "save weather master" -> "save collisions master"
      [] pc = "save collisions master" -> "save backups"
      [] pc = "save backups" -> "done"

InProgress(p) == invocations[p].pc \notin {"idle", "done", "raised"}

\* run_transformation touches the files and its own locals only
OnlyAccumulatorState ==
    UNCHANGED <<focus, normalizer_vars, pipeline_vars, snapshot_vars, row_vars>>

\* lines 280-281: the two transform calls
Begin(p) ==
    /\ invocations[p].pc = "idle"
    /\ \E weather_clean \in ConcurrentWeatherClean(focus),
          collisions_clean \in ConcurrentCollisionsClean(focus) :
           invocations' = [invocations EXCEPT ![p] =
               [@ EXCEPT !.pc = "accumulate weather",
                         !.weather_clean = weather_clean,
                         !.collisions_clean = collisions_clean]]
    /\ overlapped' = (overlapped \/ \E q \in Processes \ {p} : InProgress(q))
    /\ UNCHANGED <<weather_master, collisions_master, accumulator_vars>>
    /\ OnlyAccumulatorState

\* lines 289-321 (weather) and 323-355 (collisions): read the master if it
\* exists, concatenate, deduplicate, sort; the result stays in memory
AccumulateStatement(p, dom, master) ==
    LET inv == invocations[p]
        clean == IF dom = "weather" THEN inv.weather_clean ELSE inv.collisions_clean
        rows == Combine(dom, master, clean)
    IN  /\ inv.pc = "accumulate " \o dom
        /\ IF AccumulateRaises(dom, master, rows)
           THEN invocations' = [invocations EXCEPT ![p] = [@ EXCEPT !.pc = "raised"]]
           ELSE \E combined \in Accumulate(dom, master, clean, rows) :
                    invocations' = [invocations EXCEPT ![p] =
                        IF dom = "weather"
                        THEN [@ EXCEPT !.pc = NextStatement(inv.pc), !.weather_combined = combined]
                        ELSE [@ EXCEPT !.pc = NextStatement(inv.pc), !.collisions_combined = combined]]
        /\ UNCHANGED <<weather_master, collisions_master, accumulator_vars, overlapped>>
        /\ OnlyAccumulatorState

AccumulateWeather(p) == AccumulateStatement(p, "weather", weather_master)
AccumulateCollisions(p) == AccumulateStatement(p, "collisions", collisions_master)

Advance(p, file) ==
    invocations' = [invocations EXCEPT ![p] =
        [@ EXCEPT !.pc = NextStatement(@), !.written = @ \cup file]]

\* line 359
SaveWeatherMaster(p) ==
    /\ invocations[p].pc = "save weather master"
    /\ weather_master' = WriteCsv(invocations[p].weather_combined)
    /\ Advance(p, {"weather_master"})
    /\ UNCHANGED <<collisions_master, accumulator_vars, overlapped>>
    /\ OnlyAccumulatorState

\* line 360
SaveCollisionsMaster(p) ==
    /\ invocations[p].pc = "save collisions master"
    /\ collisions_master' = WriteCsv(invocations[p].collisions_combined)
    /\ Advance(p, {"collisions_master"})
    /\ UNCHANGED <<weather_master, accumulator_vars, overlapped>>
    /\ OnlyAccumulatorState

\* lines 366-370
SaveBackups(p) ==
    /\ invocations[p].pc = "save backups"
    /\ weather_backup' = WriteCsv(invocations[p].weather_clean)
    /\ collisions_backup' = WriteCsv(invocations[p].collisions_clean)
    /\ Advance(p, {"weather_backup", "collisions_backup"})
    /\ UNCHANGED <<weather_master, collisions_master, new_records, outcome, overlapped>>
    /\ OnlyAccumulatorState

Concurrent ==
    \E p \in Processes :
        \/ Begin(p)
        \/ AccumulateWeather(p)
        \/ AccumulateCollisions(p)
        \/ SaveWeatherMaster(p)
        \/ SaveCollisionsMaster(p)
        \/ SaveBackups(p)

\* the masters an earlier, completed call has left behind
InitConcurrent ==
    /\ focus \in {"weather", "collisions"}
    /\ weather_master \in
           {NoFile} \cup (IF focus = "weather"
                          THEN {WriteCsv(c) : c \in ConcurrentWeatherClean(focus)} ELSE {})
    /\ collisions_master \in
           {NoFile} \cup (IF focus = "collisions"
                          THEN {WriteCsv(c) : c \in ConcurrentCollisionsClean(focus)} ELSE {})
    /\ weather_backup = NoFile
    /\ collisions_backup = NoFile
    /\ new_records = [weather |-> 0, collisions |-> 0]
    /\ outcome = "none"
    /\ NoNormalizer
    /\ logs_dir = TRUE
    /\ NoPipeline
    /\ NoSnapshots
    /\ NoRow
    /\ NoInvocations

SpecConcurrent == InitConcurrent /\ [][Concurrent]_vars

\* ------------------------------------------------------------------ claims
RowsOf(rows) == {rows[i] : i \in 1..Len(rows)}
NoDuplicateKeys(dom, rows) ==
    \A i, j \in 1..Len(rows) : i # j => Key(dom, rows[i]) # Key(dom, rows[j])

\* C1: every master the accumulator has written holds at most one row per
\* natural key (weather: borough + datetime; collisions: collision_id), on a
\* first run and on every later one.
C1_KeyUniqueness ==
    /\ NoDuplicateKeys("weather", weather_master.rows)
    /\ NoDuplicateKeys("collisions", collisions_master.rows)

\* a run merged a batch into an existing master: the master holds a key the
\* batch does not, and the batch re-ingested a key the master already had
C1_Witness ==
    /\ outcome = "returned"
    /\ \/ /\ Len(weather_backup.rows) > new_records.weather
          /\ KeysOf("weather", weather_master.rows) # KeysOf("weather", weather_backup.rows)
       \/ /\ Len(collisions_backup.rows) > new_records.collisions
          /\ KeysOf("collisions", collisions_master.rows)
                 # KeysOf("collisions", collisions_backup.rows)

KeysGrow(dom, master, master2, batch2) ==
    /\ KeysOf(dom, master.rows) \subseteq KeysOf(dom, master2.rows)
    /\ outcome' = "returned" =>
           KeysOf(dom, master2.rows) = KeysOf(dom, master.rows) \cup KeysOf(dom, batch2.rows)

\* C2: a run that returns leaves in each master exactly the keys of the
\* previous master and of the incoming batch; no run removes a key from a master.
C2_SupersedeNotLose ==
    [][/\ KeysGrow("weather", weather_master, weather_master', weather_backup')
       /\ KeysGrow("collisions", collisions_master, collisions_master', collisions_backup')]_vars

\* a merge whose result has keys from the previous master only and keys from
\* the batch
C2_Witness ==
    /\ outcome = "returned"
    /\ \/ /\ weather_backup.rows # <<>>
          /\ new_records.weather > 0
          /\ KeysOf("weather", weather_master.rows) # KeysOf("weather", weather_backup.rows)
       \/ /\ collisions_backup.rows # <<>>
          /\ new_records.collisions > 0
          /\ KeysOf("collisions", collisions_master.rows)
                 # KeysOf("collisions", collisions_backup.rows)

Supersedes(dom, master, master2, batch2) ==
    \A i \in 1..Len(batch2.rows) :
        (\E j \in 1..Len(master.rows) :
             /\ Key(dom, master.rows[j]) = Key(dom, batch2.rows[i])
             /\ master.rows[j] # batch2.rows[i])
        => {r \in RowsOf(master2.rows) : Key(dom, r) = Key(dom, batch2.rows[i])}
               = {batch2.rows[i]}

\* C4: when a run returns, every incoming row whose key the previous master
\* held with other values is the one row of that key in the new master.
C4_SupersedeOnCollision ==
    [][outcome' = "returned" =>
           /\ Supersedes("weather", weather_master, weather_master', weather_backup')
           /\ Supersedes("collisions", collisions_master, collisions_master',
                         collisions_backup')]_vars

\* the end-to-end scenario: the batch [A v2, B] met a master that held one of
\* the two keys, and the master now is [A v2, B]
C4_Witness ==
    /\ outcome = "returned"
    /\ collisions_backup.rows =
           <<[collision_id |-> "A", crash_datetime |-> 1, borough |-> "QUEENS", val |-> "v2"],
             [collision_id |-> "B", crash_datetime |-> 2, borough |-> "QUEENS", val |-> "v1"]>>
    /\ collisions_master.rows = collisions_backup.rows
    /\ new_records.collisions = 1

\* C5: a run that returns after a run that returned with the same incoming
\* batches leaves both masters as they were (same rows, same order).
C5_Idempotence ==
    [][(/\ outcome = "returned"
        /\ outcome' = "returned"
        /\ weather_backup' = weather_backup
        /\ collisions_backup' = collisions_backup)
       => /\ weather_master'.rows = weather_master.rows
          /\ collisions_master'.rows = collisions_master.rows]_vars

\* the rows that have a timestamp are in ascending order
SortedByTs(dom, rows) ==
    \A i, j \in 1..Len(rows) :
        (i < j /\ TsOf(dom, rows[i]) # NaT /\ TsOf(dom, rows[j]) # NaT)
            => TsOf(dom, rows[i]) <= TsOf(dom, rows[j])

\* C6: every master the accumulator has written, on a first run too, is sorted
\* ascending by its primary timestamp.
C6_MonotonicOrdering ==
    /\ SortedByTs("weather", weather_master.rows)
    /\ SortedByTs("collisions", collisions_master.rows)

\* C7: a run that returns with an empty incoming batch for a domain whose
\* master exists leaves that master's rows and their order as they were.
C7_EmptyBatchNoOp ==
    [][outcome' = "returned" =>
           /\ (weather_master.exists /\ weather_backup'.rows = <<>>)
                  => weather_master'.rows = weather_master.rows
           /\ (collisions_master.exists /\ collisions_backup'.rows = <<>>)
                  => collisions_master'.rows = collisions_master.rows]_vars

\* C8: a normalizer given a batch without rows returns a frame without rows
\* and does not raise.
C8_EmptyBatchReturnsEmpty ==
    (result.done /\ batch.rows = <<>>) => (~result.raised /\ result.rows = <<>>)

\* C3: in the pipeline as run_pipeline wires it, after a run that returned
\* True the master of each domain holds every record key that this run or any
\* earlier run that returned True wrote into it.
C3_FullAccumulation ==
    pipeline_return = "True" =>
        /\ ingested.weather \subseteq KeysOf("weather", weather_master.rows)
        /\ ingested.collisions \subseteq KeysOf("collisions", collisions_master.rows)

\* C9: run_pipeline returns a boolean on every path and never lets a fault
\* out to its invoker, and the exit status is 0 exactly when it returned True.
C9_DriverNeverRaises ==
    /\ pipeline_return \in {"none", "True", "False"}
    /\ exit_status \in {"none", "0", "1"}
    /\ (exit_status = "0") <=> (pipeline_return = "True")

\* C10: when a master file could not be written and run_pipeline returned,
\* it returned False and the error file of the run was written.
C10_PersistenceFailureDetected ==
    (master_write_failed /\ pipeline_return \in {"True", "False"})
        => (pipeline_return = "False" /\ error_log)

\* C11: when an extractor met a network or API error on the requested range
\* and run_pipeline returned, it had gone on to a second extraction over the
\* fixed historical range.
C11_ExtractionFallback ==
    pipeline_return \in {"True", "False"} =>
        \A i \in 1..Len(phases) :
            phases[i] = Phase("extraction", "api error")
                => (i < Len(phases) /\ phases[i + 1].phase = "fallback extraction")

PhaseRank(name) ==
    CASE name \in {"extraction", "fallback extraction"} -> 1
      [] name = "normalization" -> 2
      [] name = "accumulation" -> 3
      [] name = "persistence" -> 4

\* C12: in a run_pipeline call that returned, the phases started in the order
\* extraction, normalization, accumulation, persistence, and after a phase that
\* did not succeed nothing started but the fallback extraction that follows a
\* failed extraction.
C12_PhaseOrdering ==
    \A i, j \in 1..Len(phases) :
        (i < j /\ pipeline_return \in {"True", "False"}) =>
            /\ PhaseRank(phases[i].phase) <= PhaseRank(phases[j].phase)
            /\ phases[i].result # "ok" =>
                   \/ /\ phases[i].phase = "extraction"
                      /\ j = i + 1
                      /\ phases[j].phase = "fallback extraction"
                   \/ /\ phases[i].phase = "extraction"
                      /\ phases[i + 1] = Phase("fallback extraction", "ok")

\* a master file without its primary timestamp column, under either name the
\* two transformation modules give it
Malformed(dom, master) ==
    /\ master.exists
    /\ master.cols \cap (IF dom = "weather" THEN {"datetime"}
                         ELSE {"crash_datetime", "crash_date"}) = {}

C14_SnapshotPolicy ==
    /\ outcome = "returned" => (weather_backup.exists /\ collisions_backup.exists)
    /\ \A i, j \in 1..Len(snapshots) : i # j => snapshots[i] # snapshots[j]

\* the ordered severity rules
SeverityRule(row) ==
    IF row.persons_killed > 0 THEN "FATAL"
    ELSE IF row.persons_injured >= 3 THEN "SEVERE"
    ELSE IF row.persons_injured > 0 THEN "MODERATE"
    ELSE IF row.persons_injured + row.persons_killed + row.others > 0 THEN "MINOR"
    ELSE "NONE"

\* C15: the severity level a collision normalizer gives a record is FATAL if
\* persons_killed > 0, else SEVERE if persons_injured >= 3, else MODERATE if
\* persons_injured > 0, else MINOR if total_involved > 0, else NONE.
C15_SeverityRules ==
    (function \in SeverityFunctions /\ value # NotApplied)
        => value.label = SeverityRule(argument)

\* the categories the priority order allows a record: rain means the rain
\* column, or any of rain, showers and precipitation
CategoryRule(row) ==
    IF row.snowfall > 0 THEN {"SNOW"}
    ELSE IF row.rain > 0 THEN {"RAIN"}
    ELSE (IF row.showers + row.precipitation > 0 THEN {"RAIN"} ELSE {})
         \cup {IF row.visibility < 5000 THEN "FOG"
               ELSE IF row.wind_speed_10m > 30 THEN "WIND"
               ELSE "CLEAR"}

\* C16: the weather category a weather normalizer gives a record is the first
\* match of SNOW (snowfall > 0), RAIN, FOG (low visibility), WIND (high wind),
\* else CLEAR.
C16_WeatherCategoryPriority ==
    (function \in CategoryFunctions /\ value # NotApplied)
        => value.label \in CategoryRule(argument)

\* C17: a crash_time with a single-digit hour ("9:15") is zero-padded ("09:15")
\* before it is parsed, a two-digit hour is left as it is, and with a valid
\* crash_date the record gets a crash_datetime with that hour and minute, which
\* the dropna of the normalizer retains.
ClockText(text) ==
    /\ FirstIndex(text, ":") \in {2, 3}
    /\ Len(text) = FirstIndex(text, ":") + 2
    /\ \A i \in 1..Len(text) : i # FirstIndex(text, ":") => IsDigit(text[i])
    /\ Number(SplitFirst(text, ":")) <= 23
HasValidDate(row) ==
    row.crash_date.present /\ row.crash_date.text[1] \in ValidDates
C17_CrashTimePadding ==
    (/\ function \in DatetimeFunctions
     /\ value # NotApplied
     /\ HasValidDate(argument)
     /\ argument.crash_time.present
     /\ ClockText(argument.crash_time.text)) =>
        LET text == argument.crash_time.text
            one_digit == FirstIndex(text, ":") = 2
        IN  /\ value.time_str = IF one_digit THEN <<"0">> \o text ELSE text
            /\ value.crash_datetime # pd_NaT
            /\ value.crash_datetime.date = argument.crash_date.text[1]
            /\ value.crash_datetime.hour = Number(SplitFirst(text, ":"))
            /\ value.crash_datetime.minute = Number(SubSeq(text, Len(text) - 1, Len(text)))
C17_Witness ==
    /\ function \in DatetimeFunctions
    /\ argument.crash_time = Cell(<<"9", ":", "1", "5">>)
    /\ HasValidDate(argument)
    /\ value # NotApplied
    /\ value.time_str = <<"0", "9", ":", "1", "5">>
    /\ value.crash_datetime.hour = 9

\* C18: a record that lacks both the crash date and the crash time (the columns
\* are absent or the values are null) gets no crash_datetime, so the dropna
\* removes it; it is never given a default date or time.
MissingCell(cell) == ~cell.present \/ cell.text \in {nan, <<"nan">>}
UpdatedNormalizers == {"WeatherTransformer.transform", "CollisionsTransformer.transform"}
C19_MalformedDropped ==
    (normalizer \in UpdatedNormalizers /\ result.done /\ batch.cols # {}) =>
        /\ ~result.raised
        /\ \A i \in 1..Len(result.rows) :
               TsOf(IF normalizer \in WeatherNormalizers THEN "weather" ELSE "collisions",
                    result.rows[i]) # NaT

\* C20: every collision record a normalizer puts out has one of the five
\* boroughs or UNKNOWN as its region, and a record whose region is missing is
\* kept, as UNKNOWN (here: one with a valid date and an id no other record of
\* the batch has).
OnlyWithId(rows, i) == \A j \in 1..Len(rows) : j # i => rows[j].collision_id # rows[i].collision_id
C20_RegionNormalization ==
    (normalizer \notin WeatherNormalizers /\ normalizer # "none" /\ result.done /\ ~result.raised) =>
        /\ \A i \in 1..Len(result.rows) : result.rows[i].borough \in BOROUGHS \cup {"UNKNOWN"}
        /\ \A i \in 1..Len(batch.rows) :
               (/\ batch.rows[i].borough = NaN
                /\ batch.rows[i].crash_date \in Timestamps
                /\ OnlyWithId(batch.rows, i)) =>
                   \E k \in 1..Len(result.rows) :
                       /\ result.rows[k].collision_id = batch.rows[i].collision_id
                       /\ result.rows[k].borough = "UNKNOWN"

\* C21: with no dates given and N = days, the range is yesterday minus N days
\* through yesterday: get_default_dates(N) returns end_date = yesterday and
\* start_date = end_date - N, and run_pipeline uses these for every bound that
\* was left unspecified.
C21_DefaultDateRange ==
    (function \in DateFunctions /\ value # NotApplied) =>
        LET yesterday == argument.today - 1
        IN  IF function = "get_default_dates"
            THEN value.end_date = yesterday /\ value.start_date = yesterday - argument.days
            ELSE /\ ~argument.end_date.given => value.end_date = yesterday
                 /\ ~argument.start_date.given => value.start_date = yesterday - argument.days
                 /\ argument.end_date.given => value.end_date = argument.end_date.date
                 /\ argument.start_date.given => value.start_date = argument.start_date.date

\* C22: nothing excludes two calls of the accumulator from each other: when
\* they overlap, the master can end up without keys that the call which wrote
\* first had ingested; when one call begins only after the other has ended,
\* the master has the keys of every completed call.
LostUpdate ==
    \E p \in Processes :
        /\ invocations[p].pc = "done"
        /\ \/ ~(KeysOf("weather", invocations[p].weather_clean.rows)
                    \subseteq KeysOf("weather", weather_master.rows))
           \/ ~(KeysOf("collisions", invocations[p].collisions_clean.rows)
                    \subseteq KeysOf("collisions", collisions_master.rows))
C22_LostUpdateOnlyWhenOverlapping == ~overlapped => ~LostUpdate
C22_Witness ==
    /\ overlapped
    /\ \A p \in Processes : invocations[p].pc = "done"
    /\ LostUpdate

\* C23: the chronological sort of a merge is stable: two records with the same
\* primary timestamp are in the master in the order they had after the
\* deduplication (existing rows before incoming ones, each in their earlier
\* order).
Position(dom, rows, r) == CHOOSE k \in 1..Len(rows) : Key(dom, rows[k]) = Key(dom, r)
KeepsOrderOfTies(dom, deduplicated, sorted) ==
    \A i, j \in 1..Len(deduplicated) :
        (i < j /\ TsOf(dom, deduplicated[i]) = TsOf(dom, deduplicated[j])) =>
            Position(dom, sorted, deduplicated[i]) < Position(dom, sorted, deduplicated[j])
C23_StableSort ==
    [][outcome' = "returned" =>
          /\ weather_master.exists =>
                 KeepsOrderOfTies("weather",
                     Combine("weather", weather_master, weather_backup'), weather_master'.rows)
          /\ collisions_master.exists =>
                 KeepsOrderOfTies("collisions",
                     Combine("collisions", collisions_master, collisions_backup'),
                     collisions_master'.rows)]_vars

\* C24: the count of new records of a run is |incoming| when there was no
\* master, and |merged| - |existing| otherwise; it is negative only if the
\* existing master had duplicate keys, and when the existing keys are unique it
\* is the number of distinct incoming keys that the master did not have.
CountIsRight(dom, master, master2, incoming, count) ==
    IF ~master.exists THEN count = Len(incoming.rows)
    ELSE /\ count = Len(master2.rows) - Len(master.rows)
         /\ count < 0 => ~NoDuplicateKeys(dom, master.rows)
         /\ NoDuplicateKeys(dom, master.rows) =>
                count = Cardinality(KeysOf(dom, incoming.rows) \ KeysOf(dom, master.rows))
C24_NewRecordCount ==
    [][outcome' = "returned" =>
          /\ CountIsRight("weather", weather_master, weather_master', weather_backup',
                          new_records'.weather)
          /\ CountIsRight("collisions", collisions_master, collisions_master',
                          collisions_backup', new_records'.collisions)]_vars
C24_Witness ==
    /\ outcome = "returned"
    /\ new_records.weather < 0
    /\ new_records.collisions = 1

\* C25: whatever the raw values (missing column, null, text, any number), each
\* of the eight injury and fatality counts of a normalized collision record is
\* a non-negative integer, 0 for a missing or unparsable value, and
\* total_involved is the sum of the eight.
C25_InjuryCounts ==
    (function \in CountFunctions /\ value # NotApplied) =>
        /\ \A col \in injury_cols :
               /\ value.counts[col] \in Nat
               /\ argument[col].kind # "number" => value.counts[col] = 0
        /\ value.total_involved = SumOf(value.counts, injury_cols)

\* C26: a pipeline run whose extraction returned no rows for either domain
\* leaves both master files with the rows they had, with and without the
\* loading phase (run_loading called with the empty results).
C26_EmptyExtractionKeepsMasters ==
    [][(/\ pipeline_return' \in {"True", "False"}
        /\ phases' # <<>>
        /\ extracted' = [weather |-> 0, collisions |-> 0]) =>
           /\ weather_master'.rows = weather_master.rows
           /\ collisions_master'.rows = collisions_master.rows]_vars

\* C27: within one call of run_transformation both masters are read and merged
\* before either is written: a call whose read or merge failed for either
\* domain has written no master and no snapshot, and a call that is still
\* merging has written nothing.
C27_FailureAtomicity ==
    \A p \in Processes :
        invocations[p].pc \in {"raised", "accumulate weather", "accumulate collisions"} =>
            invocations[p].written = {}
C27_Witness ==
    \E p \in Processes :
        /\ invocations[p].pc = "raised"
        /\ invocations[p].weather_combined # EmptyDataFrame
        /\ invocations[p].written = {}

\* C28: a master file written by a successful run has the natural-key columns
\* and the primary timestamp column that the next accumulating run reads
\* (weather: borough, datetime; collisions: collision_id, crash_datetime), so
\* that run does not fail on loading it.  Stated for runs that extracted rows
\* of both domains.
ColumnsRead(dom) ==
    IF dom = "weather" THEN {"borough", "datetime"} ELSE {"collision_id", "crash_datetime"}
Loadable(dom, master) == master.exists => ColumnsRead(dom) \subseteq master.cols
C28_MasterReadableByNextRun ==
    (pipeline_return = "True" /\ extracted.weather > 0 /\ extracted.collisions > 0) =>
        /\ Loadable("weather", weather_master)
        /\ Loadable("collisions", collisions_master)

\* C29: in every execution of run_pipeline.py, data/logs is created before any
\* file in it is opened (the log file of the handler, the summary, the error
\* file), and data/processed is created before a master file is written.
C29_DirectoryBeforeWrite ==
    \A i \in 1..Len(events) :
        events[i].op = "open" => \E j \in 1..(i - 1) : events[j] = Makedirs(events[i].dir)

\* C30: whatever the snowfall, rain, showers, precipitation, visibility and wind
\* speed of a record are, when WeatherTransformer classifies it as
\* weather_category CLEAR it gives it weather_severity LIGHT.
C30_ClearIsLight ==
    (function \in WeatherFieldFunctions /\ value # NotApplied
     /\ value.weather_category = "CLEAR")
        => value.weather_severity = "LIGHT"

C30_Witness ==
    /\ function \in WeatherFieldFunctions
    /\ value # NotApplied
    /\ value.weather_category = "CLEAR"
    /\ value.weather_severity = "LIGHT"

====
